---- MODULE Spec2Model ----
(***************************************************************************)
(* Model of Euth.auth (src/euth.py): the gesture-to-symbol loop that turns *)
(* per-frame eye-aspect-ratio and nose-x readings into an attempt string   *)
(* over {"B","N"} and returns True when the SHA-256 hex digest of the      *)
(* attempt equals the password argument.                                   *)
(*                                                                         *)
(* Units: time is counted in tenths of a second (0.3 s = 3), the eye       *)
(* aspect ratio in hundredths (0.23 = 23), nose-x in pixels.               *)
(***************************************************************************)
EXTENDS Integers, Sequences, FiniteSets, TLC

\* ---------------------------------------------------------------- settings
\* Defaults of Euth.__init__ (src/euth.py:32-33).
BLINK_THRESHOLD == 23
BLINK_COOLDOWN == 3
AUTO_COOLDOWN == 6
SHAKE_BUFFER == 10
SHAKE_THRESHOLD == 30
CLEAR_COOLDOWN == 5

\* The three timers start at time.time() when auth is entered; times are
\* counted from there (the three readings fall within one tenth of a second).
SessionStart == 0

\* time.sleep(0.5) between the timers' initialisation and the first frame.
StartupSleep == 5

\* ------------------------------------------------------------------ bounds
MaxTicks == 3          \* frames read in one session
MaxDt == 6             \* wall-clock time that passes between two frames
SmallShakeBuffer == 2  \* shake_buffer of the second configuration explored

EarVals == {15, 30}       \* one reading below, one above the threshold
NoseVals == {100, 131}    \* two positions more than SHAKE_THRESHOLD apart

DefaultConfig ==
    [BLINK_THRESHOLD |-> BLINK_THRESHOLD, BLINK_COOLDOWN |-> BLINK_COOLDOWN,
     AUTO_COOLDOWN |-> AUTO_COOLDOWN, SHAKE_BUFFER |-> SHAKE_BUFFER,
     SHAKE_THRESHOLD |-> SHAKE_THRESHOLD, CLEAR_COOLDOWN |-> CLEAR_COOLDOWN]

\* The constructor stores whatever it is given; the sessions explored are the
\* default one and one with a short shake buffer, so that a Clear is reached.
Configs ==
    {DefaultConfig, [DefaultConfig EXCEPT !.SHAKE_BUFFER = SmallShakeBuffer]}

\* Two sessions with the short shake buffer: one with the default shake
\* threshold, which the two nose positions exceed by one pixel, and one with
\* a threshold of exactly their distance.
ShakeConfigs ==
    {[DefaultConfig EXCEPT !.SHAKE_BUFFER = SmallShakeBuffer],
     [DefaultConfig EXCEPT !.SHAKE_BUFFER = SmallShakeBuffer,
                           !.SHAKE_THRESHOLD = SHAKE_THRESHOLD + 1]}

\* ----------------------------------------------------------- pure helpers
RECURSIVE SeqMax(_)
SeqMax(s) ==
    IF Len(s) = 1 THEN s[1]
    ELSE LET m == SeqMax(Tail(s)) IN IF s[1] > m THEN s[1] ELSE m

RECURSIVE SeqMin(_)
SeqMin(s) ==
    IF Len(s) = 1 THEN s[1]
    ELSE LET m == SeqMin(Tail(s)) IN IF s[1] < m THEN s[1] ELSE m

\* hashlib.sha256(attempt.encode()).hexdigest(): a function of the string that
\* tells different strings apart.  The digest of a string over {"B","N"} is
\* represented by its bijective base-2 numeral ("" -> 0, "B" -> 1, "N" -> 2,
\* "BB" -> 3, ...); the empty string has a digest like any other.
RECURSIVE sha256_hexdigest(_)
sha256_hexdigest(s) ==
    IF s = <<>> THEN 0
    ELSE 2 * sha256_hexdigest(SubSeq(s, 1, Len(s) - 1))
         + (IF s[Len(s)] = "B" THEN 1 ELSE 2)

\* The default password = "" is the digest of no string (a hex digest has 64
\* characters).
NotADigest == -1

Secrets == {<<>>, <<"B">>}
Passwords == {sha256_hexdigest(s) : s \in Secrets} \cup {NotADigest}

\* deque(maxlen=n).append(x)
deque_append_keeps_oldest(q, x, maxlen) ==
    IF Len(q) >= maxlen THEN q ELSE Append(q, x)

deque_append(q, x, maxlen) ==
    IF maxlen = 0 THEN q
    ELSE IF Len(q) >= maxlen THEN Append(Tail(q), x)
    ELSE Append(q, x)

\* ------------------------------------------------------------------- state
\* "no such event yet" in the bookkeeping of event times
NoEvent == 0 - 1

VARIABLES
    cfg,              \* the settings stored by __init__
    password,         \* the digest passed to auth
    pc,               \* "loop" while auth is in its while loop, "done" after
    result,           \* what auth returned: "True", "None", or "running"
    now,              \* wall-clock time, session start = 0
    last_blink_time,
    last_check_time,
    last_clear_time,
    nose_positions,
    attempt,
    ticks,            \* frames read so far
    ev,               \* what the latest frame was and which events it fired
    lastBlinkEvt,     \* time of the latest Blink, NoEvent if none
    lastSymEvt,       \* time of the latest Blink or Neutral
    lastClearEvt,     \* time of the latest Clear
    scen              \* progress of the three-frame blink scenario

vars == <<cfg, password, pc, result, now, last_blink_time, last_check_time,
          last_clear_time, nose_positions, attempt, ticks, ev, lastBlinkEvt,
          lastSymEvt, lastClearEvt, scen>>

NoFrame ==
    [face |-> FALSE, ear |-> NoEvent, nose_x |-> NoEvent, t |-> NoEvent,
     blink |-> FALSE, neutral |-> FALSE, clear |-> FALSE,
     before |-> <<>>, nose_before |-> <<>>,
     blinkBefore |-> NoEvent, symBefore |-> NoEvent, clearBefore |-> NoEvent,
     timersBefore |-> <<SessionStart, SessionStart, SessionStart>>]

InitLocals ==
    /\ password \in Passwords
    /\ pc = "loop"
    /\ result = "running"
    /\ last_blink_time = SessionStart
    /\ last_check_time = SessionStart
    /\ last_clear_time = SessionStart
    /\ nose_positions = <<>>
    /\ now = SessionStart + StartupSleep
    /\ attempt = <<>>
    /\ ticks = 0
    /\ ev = NoFrame
    /\ lastBlinkEvt = NoEvent
    /\ lastSymEvt = NoEvent
    /\ lastClearEvt = NoEvent
    /\ scen = "s0"

Init == cfg \in Configs /\ InitLocals

InitShake == cfg \in ShakeConfigs /\ InitLocals

\* ------------------------------------------------------- the event cascade
\* src/euth.py:152-154
BlinkFires_no_clear_guard(ear, t, lbt, lct, c) ==
    /\ ear < c.BLINK_THRESHOLD
    /\ t - lbt > c.BLINK_COOLDOWN

BlinkFires_inverted(ear, t, lbt, lct, c) ==
    /\ ear > c.BLINK_THRESHOLD
    /\ t - lbt > c.BLINK_COOLDOWN
    /\ t - lct > c.CLEAR_COOLDOWN

BlinkFires_inclusive(ear, t, lbt, lct, c) ==
    /\ ear < c.BLINK_THRESHOLD
    /\ t - lbt >= c.BLINK_COOLDOWN
    /\ t - lct > c.CLEAR_COOLDOWN

BlinkFires(ear, t, lbt, lct, c) ==
    /\ ear < c.BLINK_THRESHOLD
    /\ t - lbt > c.BLINK_COOLDOWN
    /\ t - lct > c.CLEAR_COOLDOWN

\* src/euth.py:160-161; lchk is last_check_time as the elif reads it, that is
\* unchanged by this frame, because the branch is not taken after a Blink.
NeutralFires_not_elif(blink, t, lchk, lct, c) ==
    /\ t - lchk >= c.AUTO_COOLDOWN
    /\ t - lct > c.CLEAR_COOLDOWN

NeutralFires_early(blink, t, lchk, lct, c) ==
    /\ ~blink
    /\ t - lchk >= c.AUTO_COOLDOWN - 1
    /\ t - lct > c.CLEAR_COOLDOWN

NeutralFires_strict(blink, t, lchk, lct, c) ==
    /\ ~blink
    /\ t - lchk > c.AUTO_COOLDOWN
    /\ t - lct > c.CLEAR_COOLDOWN

NeutralFires(blink, t, lchk, lct, c) ==
    /\ ~blink
    /\ t - lchk >= c.AUTO_COOLDOWN
    /\ t - lct > c.CLEAR_COOLDOWN

\* src/euth.py:166-168; np is nose_positions after this frame's append.
\* (max() of an empty deque would raise; it takes shake_buffer = 0, which no
\* configuration explored here has, hence the Len(np) > 0 conjunct.)
ClearFires_no_cooldown(np, t, lct, c) ==
    /\ Len(np) >= c.SHAKE_BUFFER
    /\ Len(np) > 0
    /\ SeqMax(np) - SeqMin(np) > c.SHAKE_THRESHOLD

ClearFires_inclusive_threshold(np, t, lct, c) ==
    /\ Len(np) >= c.SHAKE_BUFFER
    /\ Len(np) > 0
    /\ SeqMax(np) - SeqMin(np) >= c.SHAKE_THRESHOLD
    /\ t - lct >= c.CLEAR_COOLDOWN

ClearFires(np, t, lct, c) ==
    /\ Len(np) >= c.SHAKE_BUFFER
    /\ Len(np) > 0
    /\ SeqMax(np) - SeqMin(np) > c.SHAKE_THRESHOLD
    /\ t - lct >= c.CLEAR_COOLDOWN

\* src/euth.py:155, 162, 169: the appends come first, the wipe last.
AttemptAfter_wipe_first(a, blink, neutral, clear) ==
    LET w == IF clear THEN <<>> ELSE a
    IN  IF blink THEN Append(w, "B")
        ELSE IF neutral THEN Append(w, "N")
        ELSE w

AttemptAfter_neutral_as_blink(a, blink, neutral, clear) ==
    LET w == IF blink \/ neutral THEN Append(a, "B") ELSE a
    IN  IF clear THEN <<>> ELSE w

AttemptAfter(a, blink, neutral, clear) ==
    LET w == IF blink THEN Append(a, "B")
             ELSE IF neutral THEN Append(a, "N")
             ELSE a
    IN  IF clear THEN <<>> ELSE w

\* src/euth.py:179-180; a is the attempt before the frame, a2 after it.
Matches_stale(a, a2, pw) == sha256_hexdigest(a) = pw

Matches_suffix(a, a2, pw) ==
    \E k \in 1..(Len(a2) + 1) :
        sha256_hexdigest(SubSeq(a2, k, Len(a2))) = pw

Matches(a, a2, pw) == sha256_hexdigest(a2) = pw

\* The scenario of three face frames with EAR 0.30, 0.15, 0.30 at 0.0, 0.4
\* and 1.0 s after the first frame, nose stationary: how far the session has
\* followed it ("s0" = no frame yet, "s1".."s3" = frames matched, "off" = the
\* session has left it).
ScenNext(s, face, ear, x, dt, np) ==
    IF s = "s0" /\ face /\ ear = 30 THEN "s1"
    ELSE IF s = "s1" /\ face /\ ear = 15 /\ dt = 4 /\ x = np[Len(np)]
    THEN "s2"
    ELSE IF s = "s2" /\ face /\ ear = 30 /\ dt = 6 /\ x = np[Len(np)]
    THEN "s3"
    ELSE "off"

\* ----------------------------------------------------------------- actions
\* The check that ends every loop iteration (src/euth.py:179-182).
EndOfFrame_only_with_face(a2) ==
    IF ev'.face /\ Matches(attempt, a2, password)
    THEN pc' = "done" /\ result' = "True"
    ELSE pc' = "loop" /\ result' = result

EndOfFrame(a2) ==
    IF Matches(attempt, a2, password)
    THEN pc' = "done" /\ result' = "True"
    ELSE pc' = "loop" /\ result' = result

\* src/euth.py:140: the event block runs only on a frame with a face.
EventsEvaluated_always(face) == TRUE

EventsEvaluated(face) == face

\* src/euth.py:157: a Blink restarts the blink timer.
LastBlinkAfter_unset(blink, t, lbt) == lbt

LastBlinkAfter(blink, t, lbt) == IF blink THEN t ELSE lbt

\* src/euth.py:158, 164: a Blink and a Neutral both restart the check timer.
LastCheckAfter_neutral_only(blink, neutral, t, lchk) ==
    IF neutral THEN t ELSE lchk

LastCheckAfter(blink, neutral, t, lchk) ==
    IF blink \/ neutral THEN t ELSE lchk

\* src/euth.py:171: a Clear restarts the clear timer.
LastClearAfter(clear, t, lct) == IF clear THEN t ELSE lct

\* One loop iteration (src/euth.py:130-182) on a frame that comes dt after
\* the previous one, with or without a face; ear and x are the readings of
\* a frame with a face.
Frame(face, dt, ear, x) ==
    LET t == now + dt
        ran == EventsEvaluated(face)
        np == IF ran THEN deque_append(nose_positions, x, cfg.SHAKE_BUFFER)
              ELSE nose_positions
        blink == ran /\ BlinkFires(ear, t, last_blink_time, last_clear_time,
                                   cfg)
        neutral == ran /\ NeutralFires(blink, t, last_check_time,
                                       last_clear_time, cfg)
        clear == ran /\ ClearFires(np, t, last_clear_time, cfg)
        a2 == AttemptAfter(attempt, blink, neutral, clear)
    IN  /\ now' = t
        /\ nose_positions' = np
        /\ last_blink_time' = LastBlinkAfter(blink, t, last_blink_time)
        /\ last_check_time' = LastCheckAfter(blink, neutral, t,
                                             last_check_time)
        /\ last_clear_time' = LastClearAfter(clear, t, last_clear_time)
        /\ attempt' = a2
        /\ ticks' = ticks + 1
        /\ ev' = [face |-> face, ear |-> ear, nose_x |-> x, t |-> t,
                  blink |-> blink, neutral |-> neutral, clear |-> clear,
                  before |-> attempt, nose_before |-> nose_positions,
                  blinkBefore |-> lastBlinkEvt, symBefore |-> lastSymEvt,
                  clearBefore |-> lastClearEvt,
                  timersBefore |-> <<last_blink_time, last_check_time,
                                     last_clear_time>>]
        /\ EndOfFrame(a2)
        /\ lastBlinkEvt' = IF blink THEN t ELSE lastBlinkEvt
        /\ lastSymEvt' = IF blink \/ neutral THEN t ELSE lastSymEvt
        /\ lastClearEvt' = IF clear THEN t ELSE lastClearEvt
        /\ scen' = ScenNext(scen, face, ear, x, dt, nose_positions)
        /\ UNCHANGED <<cfg, password>>

\* One loop iteration on a frame with a face.
FrameWithFace ==
    /\ pc = "loop"
    /\ ticks < MaxTicks
    /\ \E dt \in 0..MaxDt, ear \in EarVals, x \in NoseVals :
        Frame(TRUE, dt, ear, x)

\* One loop iteration on a frame without a face: only the final check runs.
FrameWithoutFace ==
    /\ pc = "loop"
    /\ ticks < MaxTicks
    /\ \E dt \in 0..MaxDt : Frame(FALSE, dt, NoEvent, NoEvent)

\* cap.read() returns ret = False: break, release, fall off the end of auth
\* (src/euth.py:130-132, 184-185).
StreamEnds ==
    /\ pc = "loop"
    /\ pc' = "done"
    /\ result' = "None"
    /\ UNCHANGED <<cfg, password, now, last_blink_time, last_check_time,
                   last_clear_time, nose_positions, attempt, ticks, ev,
                   lastBlinkEvt, lastSymEvt, lastClearEvt, scen>>

Next == FrameWithFace \/ FrameWithoutFace \/ StreamEnds

Spec == Init /\ [][Next]_vars

\* The same program, started with the settings of ShakeConfigs.
SpecShake == InitShake /\ [][Next]_vars

\* ------------------------------------------------------------- properties
Digest == sha256_hexdigest(attempt)

\* The time of the latest Blink or Neutral before the latest frame, the
\* session's start when there was none.
SymBeforeOrStart ==
    IF ev.symBefore = NoEvent THEN SessionStart ELSE ev.symBefore

\* C1: auth returns True only with the digest of the attempt, as the frame
\* left it, equal to the password, and it does so at the first frame that
\* ends that way: while the loop is still running after a frame, the digest
\* of the attempt differs from the password.
AuthAtFirstMatch ==
    /\ result = "True" => Digest = password
    /\ ticks > 0 /\ pc = "loop" => Digest # password
    /\ ticks > 0 /\ Digest # password /\ result # "None" => pc = "loop"

\* C1 witness: auth has returned True on a frame whose Blink completed the
\* secret.
AuthAtFirstMatchWitness ==
    /\ result = "True"
    /\ ev.blink
    /\ attempt = Append(ev.before, "B")
    /\ ticks > 1

\* C2: when the stream ends without a match, auth returns False.
StreamEndReturnsFalse ==
    pc = "done" /\ result # "True" => result = "False"

\* C3: a frame in which Clear fires leaves the attempt empty, whatever it
\* held before and whether or not a Blink or Neutral fired in that frame.
ClearEmptiesAttempt == ev.clear => attempt = <<>>

\* C3 witness: a Clear and a Blink in one frame, on a non-empty attempt.
ClearEmptiesAttemptWitness ==
    ev.clear /\ ev.blink /\ ev.before # <<>>

\* C4: a frame never fires both Blink and Neutral, and the attempt grows by
\* at most one symbol in a frame.
AtMostOneSymbolPerFrame ==
    /\ ~(ev.blink /\ ev.neutral)
    /\ Len(attempt) <= Len(ev.before) + 1

\* C4 witness: a Blink in a frame in which the Neutral timeout had run out
\* as well; one symbol was appended.
AtMostOneSymbolPerFrameWitness ==
    /\ ev.blink
    /\ ev.t - SymBeforeOrStart >= cfg.AUTO_COOLDOWN
    /\ attempt = Append(ev.before, "B")

\* C5: a Blink comes strictly more than blink_cooldown after the Blink
\* before it.
BlinksSeparated ==
    ev.blink /\ ev.blinkBefore # NoEvent
        => ev.t - ev.blinkBefore > cfg.BLINK_COOLDOWN

\* C5 witness: a second Blink.
BlinksSeparatedWitness == ev.blink /\ ev.blinkBefore # NoEvent

\* C6: a Neutral comes at least auto_cooldown after the latest Blink or
\* Neutral before it, or after the session's start when there is none.
NeutralAfterAutoCooldown ==
    ev.neutral => ev.t - SymBeforeOrStart >= cfg.AUTO_COOLDOWN

\* C6 witness: a Neutral that follows an earlier symbol.
NeutralAfterAutoCooldownWitness == ev.neutral /\ ev.symBefore # NoEvent

\* C7: a Blink or Neutral comes strictly more than clear_cooldown after the
\* latest Clear of an earlier frame.
NoSymbolWithinClearCooldown ==
    (ev.blink \/ ev.neutral) /\ ev.clearBefore # NoEvent
        => ev.t - ev.clearBefore > cfg.CLEAR_COOLDOWN

\* C7 witness: a Blink after a Clear.
NoSymbolWithinClearCooldownWitness == ev.blink /\ ev.clearBefore # NoEvent

\* C8: a Clear comes at least clear_cooldown after the Clear before it.
ClearsSeparated ==
    ev.clear /\ ev.clearBefore # NoEvent
        => ev.t - ev.clearBefore >= cfg.CLEAR_COOLDOWN

\* C8 witness: a second Clear, on a shake window that still spans more than
\* the threshold.
ClearsSeparatedWitness == ev.clear /\ ev.clearBefore # NoEvent

\* C9: nose_positions never holds more than shake_buffer entries, and a push
\* onto a full history drops the oldest entry and keeps the others in order.
NoseHistoryBounded ==
    /\ Len(nose_positions) <= cfg.SHAKE_BUFFER
    /\ ev.face /\ Len(ev.nose_before) = cfg.SHAKE_BUFFER
        => nose_positions = Append(Tail(ev.nose_before), ev.nose_x)

\* C9 witness: a push onto a full history whose entries differ.
NoseHistoryBoundedWitness ==
    /\ ev.face
    /\ Len(ev.nose_before) = cfg.SHAKE_BUFFER
    /\ ev.nose_before[1] # ev.nose_before[Len(ev.nose_before)]

\* C10 as stated: after the three frames of the scenario, under the default
\* settings, the attempt is "B".
ScenarioAttemptIsB ==
    scen = "s3" /\ cfg = DefaultConfig => attempt = <<"B">>

\* C10 amended: under the default settings the scenario fires one Blink, at
\* its second frame, and a Neutral at its third frame, 0.6 s after the
\* Blink; its first frame fires a Neutral when it comes at least
\* auto_cooldown after the session's start.  The attempt ends as "BN" or
\* "NBN".
ScenarioAttemptIsBN ==
    cfg = DefaultConfig =>
        /\ scen = "s1" =>
              /\ ~ev.blink /\ ~ev.clear
              /\ ev.neutral = (ev.t - SessionStart >= AUTO_COOLDOWN)
              /\ attempt = IF ev.neutral THEN <<"N">> ELSE <<>>
        /\ scen = "s2" =>
              /\ ev.blink /\ ~ev.neutral /\ ~ev.clear
              /\ attempt = Append(ev.before, "B")
        /\ scen = "s3" =>
              /\ ev.neutral /\ ~ev.blink /\ ~ev.clear
              /\ ev.blinkBefore = ev.t - 6
              /\ attempt = IF ev.t - 10 - SessionStart >= AUTO_COOLDOWN
                            THEN <<"N", "B", "N">> ELSE <<"B", "N">>

\* C10 witness: the scenario has run to its third frame.
ScenarioAttemptIsBNWitness ==
    scen = "s3" /\ cfg = DefaultConfig /\ attempt = <<"B", "N">>

\* No Clear has fired after the latest Blink or Neutral before the latest
\* frame (nor after the session's start when there was none).
NoClearSinceLastSymbol ==
    ev.clearBefore = NoEvent \/ ev.clearBefore <= SymBeforeOrStart

\* C11: on a frame with a face in which no Blink and no Clear fires, and with
\* no Clear since the latest Blink or Neutral, a Neutral fires as soon as
\* auto_cooldown has passed since that symbol and appends exactly one "N";
\* before that much time has passed no Neutral fires.
OneNeutralPerWindow ==
    /\ ( /\ ticks > 0 /\ ev.face /\ ~ev.blink /\ ~ev.clear
         /\ NoClearSinceLastSymbol
         /\ ev.t - SymBeforeOrStart >= cfg.AUTO_COOLDOWN )
        => ev.neutral /\ attempt = Append(ev.before, "N")
    /\ ev.t - SymBeforeOrStart < cfg.AUTO_COOLDOWN => ~ev.neutral

\* C11 witness: a Neutral exactly auto_cooldown after the symbol before it.
OneNeutralPerWindowWitness ==
    /\ ev.neutral /\ ~ev.clear
    /\ ev.symBefore # NoEvent
    /\ ev.t - ev.symBefore = cfg.AUTO_COOLDOWN
    /\ attempt = Append(ev.before, "N")

\* The settings and password a session may be started with, as the
\* configuration error of the specification has it.
WellConfigured ==
    /\ cfg.BLINK_COOLDOWN > 0 /\ cfg.AUTO_COOLDOWN > 0
    /\ cfg.CLEAR_COOLDOWN > 0
    /\ cfg.SHAKE_BUFFER >= 2
    /\ password # NotADigest

\* C12: a session with a non-positive cooldown, a shake buffer below 2 or a
\* malformed password never processes a frame.
MisconfiguredNeverRuns == ~WellConfigured => ticks = 0

\* C13: a frame without a face fires no event and leaves the three timers,
\* nose_positions and the attempt as they were.
NoFaceChangesNothing ==
    ticks > 0 /\ ~ev.face =>
        /\ ~ev.blink /\ ~ev.neutral /\ ~ev.clear
        /\ <<last_blink_time, last_check_time, last_clear_time>>
               = ev.timersBefore
        /\ nose_positions = ev.nose_before
        /\ attempt = ev.before

\* C13 witness: a frame without a face on a session that holds a symbol and
\* a nose position, long enough after them for a Neutral to be due.
NoFaceChangesNothingWitness ==
    /\ ticks > 0 /\ ~ev.face
    /\ attempt # <<>> /\ nose_positions # <<>>
    /\ ev.t - last_check_time >= cfg.AUTO_COOLDOWN

\* C14: a frame leaves the attempt empty when a Clear fires, else with one
\* "B" appended on a Blink, else with one "N" appended on a Neutral, else
\* unchanged; the stream's end does not touch it.
AttemptChangesOnlyByEvents ==
    ticks > 0 =>
        attempt = IF ev.clear THEN <<>>
                  ELSE IF ev.blink THEN Append(ev.before, "B")
                  ELSE IF ev.neutral THEN Append(ev.before, "N")
                  ELSE ev.before

\* C14 witness: a Neutral appended to a non-empty attempt.
AttemptChangesOnlyByEventsWitness ==
    ev.neutral /\ ~ev.clear /\ ev.before # <<>>
        /\ attempt = Append(ev.before, "N")

\* C15: on a frame with a face a Clear fires exactly when, after the push,
\* nose_positions holds shake_buffer entries that span more than
\* shake_threshold and at least clear_cooldown has passed on the clear
\* timer; no Clear fires before shake_buffer frames with a face.
ClearExactlyWhenShaken ==
    /\ ticks > 0 /\ ev.face =>
          ( ev.clear <=>
              /\ Len(nose_positions) = cfg.SHAKE_BUFFER
              /\ SeqMax(nose_positions) - SeqMin(nose_positions)
                     > cfg.SHAKE_THRESHOLD
              /\ ev.t - ev.timersBefore[3] >= cfg.CLEAR_COOLDOWN )
    /\ ev.clear => ev.face /\ ticks >= cfg.SHAKE_BUFFER

\* C15 witness: a Clear exactly clear_cooldown after the Clear before it.
ClearExactlyWhenShakenWitness ==
    /\ ev.clear /\ ev.clearBefore # NoEvent
    /\ ev.t - ev.clearBefore = cfg.CLEAR_COOLDOWN

\* C16: cooldowns run on the wall clock.  On the first frame with a face
\* after one or more frames without, if auto_cooldown has passed on the
\* check timer and more than clear_cooldown on the clear timer, exactly one
\* symbol fires in that frame: a Blink if the EAR is below the threshold and
\* more than blink_cooldown has passed on the blink timer, else a Neutral.
WallClockCooldowns ==
    [][ ( /\ ticks' = ticks + 1 /\ ticks > 0
          /\ ~ev.face /\ ev'.face
          /\ ev'.t - last_check_time >= cfg.AUTO_COOLDOWN
          /\ ev'.t - last_clear_time > cfg.CLEAR_COOLDOWN )
        => LET b == /\ ev'.ear < cfg.BLINK_THRESHOLD
                    /\ ev'.t - last_blink_time > cfg.BLINK_COOLDOWN
           IN  /\ ev'.blink = b
               /\ ev'.neutral = ~b
               /\ ~ev'.clear =>
                     attempt' = Append(attempt, IF b THEN "B" ELSE "N")
      ]_vars

\* C16 witness: the latest frame is the session's first with a face, frames
\* without a face came before it, and it fired a symbol that was kept.
WallClockCooldownsWitness ==
    /\ ticks >= 2 /\ ev.face /\ Len(nose_positions) = 1
    /\ ev.blink \/ ev.neutral
    /\ Len(attempt) = 1

\* C17: last_blink_time <= last_check_time <= the current time and
\* last_clear_time <= the current time; no timer ever decreases; and
\* last_check_time is the time of the latest Blink or Neutral, the session's
\* start when there was none.
TimersOrdered ==
    /\ last_blink_time <= last_check_time
    /\ last_check_time <= now
    /\ last_clear_time <= now
    /\ ev.timersBefore[1] <= last_blink_time
    /\ ev.timersBefore[2] <= last_check_time
    /\ ev.timersBefore[3] <= last_clear_time
    /\ last_check_time =
          IF lastSymEvt = NoEvent THEN SessionStart ELSE lastSymEvt

\* C17 witness: a Neutral after a Blink, so that last_blink_time lies
\* strictly before last_check_time, in a session that has seen a Clear.
TimersOrderedWitness ==
    /\ SessionStart < last_blink_time
    /\ last_blink_time < last_check_time
    /\ lastClearEvt # NoEvent

\* C18: a Blink or Neutral that fires in the same frame as a Clear still
\* restarts its timers at that frame's time although the attempt ends the
\* frame empty, and every Blink and Neutral waits on those timers: a Blink
\* for more than blink_cooldown on the blink timer, a Neutral for at least
\* auto_cooldown on the check timer.
DiscardedSymbolRestartsTimers ==
    /\ ev.clear /\ ev.blink =>
          /\ attempt = <<>>
          /\ last_blink_time = ev.t /\ last_check_time = ev.t
    /\ ev.clear /\ ev.neutral =>
          /\ attempt = <<>>
          /\ last_check_time = ev.t
    /\ ev.blink => ev.t - ev.timersBefore[1] > cfg.BLINK_COOLDOWN
    /\ ev.neutral => ev.t - ev.timersBefore[2] >= cfg.AUTO_COOLDOWN

\* C18 witness: a Neutral in the same frame as a Clear.
DiscardedSymbolRestartsTimersWitness ==
    ev.clear /\ ev.neutral /\ last_check_time = ev.t

\* The sequence the password is the digest of, for a password that is one.
HasSecret == password # NotADigest
secret == CHOOSE s \in Secrets : sha256_hexdigest(s) = password
IsPrefix(a, s) == Len(a) <= Len(s) /\ a = SubSeq(s, 1, Len(a))

\* C19: with a digest that tells sequences apart, auth returns True exactly
\* at the end of the first frame that leaves the attempt equal to the
\* secret, without any end-of-entry marker; and a frame that starts with an
\* attempt that is no prefix of the secret and fires no Clear ends with such
\* an attempt and without authentication.
AuthOnlyAtSecret ==
    HasSecret =>
        /\ result = "True" => attempt = secret
        /\ ticks > 0 /\ attempt = secret => result = "True"
        /\ ticks > 0 /\ ~IsPrefix(ev.before, secret) /\ ~ev.clear
              => ~IsPrefix(attempt, secret) /\ result # "True"

\* C19 witness: a Blink appended to an attempt that was no prefix of the
\* secret "B"; the session goes on.
AuthOnlyAtSecretWitness ==
    /\ HasSecret /\ ticks > 0
    /\ ~IsPrefix(ev.before, secret)
    /\ ev.blink /\ ~ev.clear
    /\ attempt[Len(attempt)] = "B"
    /\ pc = "loop"

EmptyDigest == sha256_hexdigest(<<>>)

\* C20 as stated: the comparison runs at the end of every frame read, with
\* or without a face; with the digest of the empty sequence as password auth
\* returns True on the very first frame; and it succeeds at the end of every
\* frame in which a Clear fires.
EmptyTargetEndsAtFirstFrame ==
    /\ ticks > 0 /\ password = EmptyDigest => result = "True" /\ ticks = 1
    /\ ticks > 0 /\ ~ev.face /\ Digest = password => result = "True"
    /\ ev.clear /\ password = EmptyDigest => result = "True"

\* C20 amended: the comparison runs at the end of every frame read, with or
\* without a face.  With the digest of the empty sequence as password auth
\* returns True on the first frame unless that frame has a face and fires a
\* Blink or a Neutral, which leaves the attempt non-empty; after such a
\* frame auth returns True at the end of the first frame in which a Clear
\* fires, and not before.
CheckRunsOnEveryFrame ==
    /\ ticks > 0 /\ ~ev.face /\ Digest = password => result = "True"
    /\ ticks = 1 /\ password = EmptyDigest =>
          (result = "True" <=> ~(ev.blink \/ ev.neutral))
    /\ ticks = 1 /\ ~ev.face /\ password = EmptyDigest => result = "True"
    /\ ticks > 1 /\ password = EmptyDigest =>
          /\ ev.before # <<>>
          /\ result = "True" <=> ev.clear
    /\ ev.clear => Digest = EmptyDigest

\* C20 witness: auth has returned True on a first frame without a face.
CheckRunsOnEveryFrameWitness ==
    ticks = 1 /\ ~ev.face /\ result = "True" /\ attempt = <<>>

\* A Clear that ends a session whose password is the digest of the empty
\* sequence, after a first frame that fired a symbol.
ClearAuthenticatesEmptyTarget ==
    password = EmptyDigest /\ ev.clear /\ result = "True" /\ ticks > 1

====
